---- MODULE Spec2Model ----
(***************************************************************************)
(* A model of the macOS STIG runner (stig_runner.py) and of the advisory   *)
(* step of the audit agent (ai_audit_agent.py).                            *)
(*                                                                         *)
(* Strings are Python strings, handled character by character with Len,    *)
(* SubSeq and \o.  The fence character U+0060 cannot be written inside a    *)
(* TLA+ string; the model writes it as "~", so FENCE3 below stands for the  *)
(* triple-backtick marker of _RE_FENCE.                                     *)
(*                                                                         *)
(* Three specifications share the variables:                               *)
(*   SpecLoad      one rule of extract_rules_from_xccdf (the extractor)     *)
(*   Spec          run_rules, with run_cmd and ai_judge                     *)
(*   SpecAdvisory  one invocation of ai_triage or of ai_judge               *)
(***************************************************************************)
EXTENDS Integers, Sequences, FiniteSets, TLC

(***************************************************************************)
(* Python string primitives                                                *)
(***************************************************************************)
Char(s, i) == SubSeq(s, i, i)

Slice(s, a, b) == IF a > b THEN "" ELSE SubSeq(s, a, b)

IsSpace(c) == c \in {" ", "\t", "\n", "\r"}

StartsWith(s, p) == Len(s) >= Len(p) /\ Slice(s, 1, Len(p)) = p

StartsWithAt(s, i, p) == i + Len(p) - 1 <= Len(s) /\ Slice(s, i, i + Len(p) - 1) = p

EndsWith(s, p) == Len(s) >= Len(p) /\ Slice(s, Len(s) - Len(p) + 1, Len(s)) = p

RECURSIVE LStrip(_)
LStrip(s) ==
    IF s = "" THEN ""
    ELSE IF IsSpace(Char(s, 1)) THEN LStrip(Slice(s, 2, Len(s))) ELSE s

RECURSIVE RStrip(_)
RStrip(s) ==
    IF s = "" THEN ""
    ELSE IF IsSpace(Char(s, Len(s))) THEN RStrip(Slice(s, 1, Len(s) - 1)) ELSE s

Strip(s) == LStrip(RStrip(s))

\* The index of the first whitespace character of s at or after i, Len(s)+1 if none.
RECURSIVE SpaceFrom(_, _)
SpaceFrom(s, i) ==
    IF i > Len(s) THEN i
    ELSE IF IsSpace(Char(s, i)) THEN i ELSE SpaceFrom(s, i + 1)

\* The index of the first non-whitespace character of s at or after i, Len(s)+1 if none.
RECURSIVE NonSpaceFrom(_, _)
NonSpaceFrom(s, i) ==
    IF i > Len(s) THEN i
    ELSE IF IsSpace(Char(s, i)) THEN NonSpaceFrom(s, i + 1) ELSE i

\* s.split()[0] for a string with at least one non-whitespace character.
FirstToken(s) ==
    LET t == LStrip(s) IN Slice(t, 1, SpaceFrom(t, 1) - 1)

\* s.splitlines(): lines end at \n, \r or \r\n; no empty last line.
RECURSIVE SplitLinesFrom(_, _, _)
SplitLinesFrom(s, i, cur) ==
    IF i > Len(s) THEN (IF cur = "" THEN <<>> ELSE <<cur>>)
    ELSE IF Char(s, i) = "\n" THEN <<cur>> \o SplitLinesFrom(s, i + 1, "")
    ELSE IF Char(s, i) = "\r"
         THEN <<cur>> \o SplitLinesFrom(s, IF StartsWithAt(s, i + 1, "\n") THEN i + 2 ELSE i + 1, "")
    ELSE SplitLinesFrom(s, i + 1, cur \o Char(s, i))

SplitLines(s) == SplitLinesFrom(s, 1, "")

\* sep.join(parts)
RECURSIVE Join(_, _)
Join(parts, sep) ==
    IF parts = <<>> THEN ""
    ELSE IF Len(parts) = 1 THEN parts[1]
    ELSE parts[1] \o sep \o Join(Tail(parts), sep)

\* s.replace(old, new)
RECURSIVE Replace(_, _, _)
Replace(s, old, new) ==
    IF s = "" THEN ""
    ELSE IF StartsWith(s, old) THEN new \o Replace(Slice(s, Len(old) + 1, Len(s)), old, new)
    ELSE Char(s, 1) \o Replace(Slice(s, 2, Len(s)), old, new)

Lowers == <<"a","b","c","d","e","f","g","h","i","j","k","l","m",
            "n","o","p","q","r","s","t","u","v","w","x","y","z">>

Uppers == <<"A","B","C","D","E","F","G","H","I","J","K","L","M",
            "N","O","P","Q","R","S","T","U","V","W","X","Y","Z">>

Digits == {"0","1","2","3","4","5","6","7","8","9"}

Letters == {Lowers[i] : i \in 1..26} \cup {Uppers[i] : i \in 1..26}

LowerChar(c) ==
    IF \E i \in 1..26 : Uppers[i] = c THEN Lowers[CHOOSE i \in 1..26 : Uppers[i] = c] ELSE c

\* s.lower()
RECURSIVE Lower(_)
Lower(s) == IF s = "" THEN "" ELSE LowerChar(Char(s, 1)) \o Lower(Slice(s, 2, Len(s)))

\* sub in s
Contains(s, sub) == \E i \in 1..(Len(s) + 1) : StartsWithAt(s, i, sub)

(***************************************************************************)
(* Execution safety tables (stig_runner.py lines 24-29)                    *)
(***************************************************************************)
EXEC_WHITELIST_PREFIX == "/"

EXEC_WHITELIST_CMDS ==
    {"osascript","defaults","profiles","security","csrutil","spctl","pwpolicy",
     "launchctl","grep","awk","sed","xmllint","stat","ls","find","sysctl",
     "more","cat","dscl","cupsctl","pgrep","mdmclient","sshd","sudo","sh","bash","zsh",
     "printf","echo"}

(***************************************************************************)
(* The extraction patterns (stig_runner.py lines 32-35)                    *)
(***************************************************************************)
FENCE3 == "~~~"

FenceTags == <<"bash", "sh", "zsh", "">>

IdentStart == Letters \cup {"_"}

IdentChars == Letters \cup Digits \cup {"_"}

AllIn(s, chars) == \A i \in 1..Len(s) : Char(s, i) \in chars

NoMatch == [matched |-> FALSE]

\* _RE_PROMPT.match(line): ^\s*\$\s*(?P<cmd>.+?)\s*$ on a line without line ends.
\* After the sigil \s* is greedy and cmd is lazy but not empty: cmd is the rest
\* without its surrounding whitespace, or one whitespace character when the rest
\* is nothing but whitespace.
RE_PROMPT(line) ==
    LET d == NonSpaceFrom(line, 1)
        rest == Slice(line, d + 1, Len(line))
    IN  IF d > Len(line) \/ Char(line, d) # "$" \/ rest = "" THEN NoMatch
        ELSE [matched |-> TRUE,
              cmd |-> IF Strip(rest) = "" THEN Char(rest, Len(rest)) ELSE Strip(rest)]

\* The places k of line where "<<" stands, followed only by a tag between optional
\* whitespace, with at least one character before it.
HeredocMarks(line) ==
    {k \in 2..(Len(line) - 1) :
        /\ Slice(line, k, k + 1) = "<<"
        /\ LET t == Strip(Slice(line, k + 2, Len(line)))
           IN  t # "" /\ AllIn(t, IdentChars)}

\* _RE_HEREDOC_OPEN.search(line): (?P<head>.+?)<<\s*(?P<tag>[A-Za-z0-9_]+)\s*$
\* The lazy head ends at the first such place.
RE_HEREDOC_OPEN(line) ==
    LET ks == HeredocMarks(line) IN
    IF ks = {} THEN NoMatch
    ELSE LET k == CHOOSE x \in ks : \A y \in ks : x <= y
         IN  [matched |-> TRUE,
              head |-> Slice(line, 1, k - 1),
              tag |-> Strip(Slice(line, k + 2, Len(line)))]

\* _RE_HEREDOC_TERM(tag).match(line): ^\s*TAG\s*$
RE_HEREDOC_TERM(tag, line) == Strip(line) = tag

\* One match of _RE_FENCE starting at p:
\*   FENCE3 (?:bash|sh|zsh)? \s* \n (?P<body>.+?) \n FENCE3      (DOTALL)
\* The tag alternatives are tried in order, then no tag; \s* is greedy, so the
\* line end it leaves for \n is the last one that still lets the rest match; the
\* body is lazy and not empty.
FenceCloseFrom(text, b) ==
    {e \in (b + 1)..(Len(text) - 3) : Slice(text, e, e + 3) = "\n" \o FENCE3}

FenceOpenEnds(text, q) ==
    {n \in q..(NonSpaceFrom(text, q) - 1) :
        Char(text, n) = "\n" /\ FenceCloseFrom(text, n + 1) # {}}

FenceTagOK(text, p, tag) ==
    /\ StartsWithAt(text, p + 3, tag)
    /\ FenceOpenEnds(text, p + 3 + Len(tag)) # {}

RE_FENCE_at(text, p) ==
    IF ~StartsWithAt(text, p, FENCE3) \/ \A i \in 1..4 : ~FenceTagOK(text, p, FenceTags[i])
    THEN NoMatch
    ELSE LET i == CHOOSE x \in 1..4 :
                    FenceTagOK(text, p, FenceTags[x])
                    /\ \A y \in 1..(x - 1) : ~FenceTagOK(text, p, FenceTags[y])
             ns == FenceOpenEnds(text, p + 3 + Len(FenceTags[i]))
             n == CHOOSE x \in ns : \A y \in ns : y <= x
             es == FenceCloseFrom(text, n + 1)
             e == CHOOSE x \in es : \A y \in es : x <= y
         IN  [matched |-> TRUE, body |-> Slice(text, n + 1, e - 1), end |-> e + 4]

\* [m.group("body") for m in _RE_FENCE.finditer(text)], scanning from p.
RECURSIVE RE_FENCE_bodies(_, _)
RE_FENCE_bodies(text, p) ==
    IF p + 2 > Len(text) THEN <<>>
    ELSE LET m == RE_FENCE_at(text, p) IN
         IF m.matched THEN <<m.body>> \o RE_FENCE_bodies(text, m.end)
         ELSE RE_FENCE_bodies(text, p + 1)

(***************************************************************************)
(* join_backslash_lines (lines 40-53)                                      *)
(***************************************************************************)
RECURSIVE JoinLoop(_, _, _)
JoinLoop(lines, i, buf) ==
    IF i > Len(lines) THEN (IF buf # "" THEN <<buf>> ELSE <<>>)
    ELSE LET b == buf \o RStrip(lines[i]) IN
         IF EndsWith(b, "\\") THEN JoinLoop(lines, i + 1, Slice(b, 1, Len(b) - 1))
         ELSE <<b>> \o JoinLoop(lines, i + 1, "")

join_backslash_lines(s) == Join(JoinLoop(SplitLines(s), 1, ""), "\n")

(***************************************************************************)
(* looks_executable (lines 55-62)                                          *)
(***************************************************************************)
\* re.match(r"^[A-Za-z_][A-Za-z0-9_]*\s*=\s*", cmd)
RECURSIVE IdentEnd(_, _)
IdentEnd(s, i) ==
    IF i <= Len(s) /\ Char(s, i) \in IdentChars THEN IdentEnd(s, i + 1) ELSE i

IsAssignmentNever(cmd) == FALSE

IsAssignment(cmd) ==
    /\ cmd # "" /\ Char(cmd, 1) \in IdentStart
    /\ LET j == NonSpaceFrom(cmd, IdentEnd(cmd, 2))
       IN  j <= Len(cmd) /\ Char(cmd, j) = "="

HeadAllowedAny(token) == TRUE

HeadAllowed(token) ==
    StartsWith(token, EXEC_WHITELIST_PREFIX) \/ token \in EXEC_WHITELIST_CMDS

looks_executable(c) ==
    LET cmd == Strip(c) IN
    IF cmd = "" \/ StartsWith(cmd, "#") THEN FALSE
    ELSE IF IsAssignment(cmd) THEN FALSE
    ELSE HeadAllowed(FirstToken(cmd))

(***************************************************************************)
(* The heredoc capture shared by the three scanning branches               *)
(* (lines 74-81, 99-106, 111-118)                                          *)
(***************************************************************************)
\* The index of the first line at or after i that ends the heredoc, Len(lines)+1 if none.
RECURSIVE HeredocEnd(_, _, _)
HeredocEnd(lines, i, tag) ==
    IF i > Len(lines) THEN i
    ELSE IF RE_HEREDOC_TERM(tag, lines[i]) THEN i ELSE HeredocEnd(lines, i + 1, tag)

\* The command of the heredoc opened on line i, whose first block line is `first`,
\* and the index the scan goes on from.
HeredocBlock(lines, i, first, h) ==
    LET j == HeredocEnd(lines, i + 1, h.tag)
        last == IF j <= Len(lines) THEN j ELSE Len(lines)
        block == <<first>> \o SubSeq(lines, i + 1, last)
        cmd == Strip(Join(block, "\n"))
    IN  [cmds |-> IF looks_executable(RStrip(h.head)) THEN <<cmd>> ELSE <<>>,
         next |-> j + 1]

(***************************************************************************)
(* extract_from_fences (lines 64-87)                                       *)
(***************************************************************************)
RECURSIVE FenceScan(_, _)
FenceScan(lines, i) ==
    IF i > Len(lines) THEN <<>>
    ELSE LET line == lines[i]
             h == RE_HEREDOC_OPEN(line)
         IN  IF h.matched
             THEN LET b == HeredocBlock(lines, i, line, h)
                  IN  b.cmds \o FenceScan(lines, b.next)
             ELSE LET pm == RE_PROMPT(line)
                      cand == Strip(IF pm.matched THEN pm.cmd ELSE line)
                  IN  (IF looks_executable(cand) THEN <<cand>> ELSE <<>>)
                      \o FenceScan(lines, i + 1)

RECURSIVE FenceBodiesScan(_)
FenceBodiesScan(bodies) ==
    IF bodies = <<>> THEN <<>>
    ELSE FenceScan(SplitLines(join_backslash_lines(Head(bodies))), 1)
         \o FenceBodiesScan(Tail(bodies))

extract_from_fences(text) == FenceBodiesScan(RE_FENCE_bodies(text, 1))

(***************************************************************************)
(* extract_from_free_text (lines 89-120)                                   *)
(***************************************************************************)
RECURSIVE FreeScan(_, _)
FreeScan(lines, i) ==
    IF i > Len(lines) THEN <<>>
    ELSE LET raw == lines[i]
             pm == RE_PROMPT(raw)
         IN  IF pm.matched
             THEN LET cand == pm.cmd
                      h == RE_HEREDOC_OPEN(cand)
                  IN  IF h.matched
                      THEN LET b == HeredocBlock(lines, i, cand, h)
                           IN  b.cmds \o FreeScan(lines, b.next)
                      ELSE (IF looks_executable(cand) THEN <<cand>> ELSE <<>>)
                           \o FreeScan(lines, i + 1)
             ELSE LET h == RE_HEREDOC_OPEN(raw)
                  IN  IF h.matched
                      THEN LET b == HeredocBlock(lines, i, raw, h)
                           IN  b.cmds \o FreeScan(lines, b.next)
                      ELSE FreeScan(lines, i + 1)

extract_from_free_text(text) == FreeScan(SplitLines(join_backslash_lines(text)), 1)

(***************************************************************************)
(* One check-content block of extract_rules_from_xccdf                     *)
(* (lines 144-146, and the same in the fallback parser, lines 166-168)     *)
(***************************************************************************)
ExtractBlock(blob0) ==
    LET blob == Replace(blob0, "\r\n", "\n")
        cmds == extract_from_fences(blob)
    IN  IF cmds = <<>> THEN extract_from_free_text(blob) ELSE cmds

(***************************************************************************)
(* State                                                                   *)
(***************************************************************************)
VARIABLES
    \* extract_rules_from_xccdf, one rule
    lpc,          \* "checks": in the loop over the rule's check elements; "done"; "idle"
    blobs,        \* the check-content texts of the rule read so far
    cmd_blocks,   \* the rule's command list so far
    loaded,       \* rules: the list the loader returns
    \* run_rules
    pc,           \* "rule", "cmd", "exec", "judge", "done", "raised"; "idle"
    allow_unsafe, ids, keyword, \* arguments of run_rules
    ri,           \* position in rules of the rule the loop is at
    rule,         \* r, the selected rule being processed
    ci,           \* position in r["commands"] of c
    ev,           \* the evidence list of r
    counts,       \* executed, manual, errors
    results,      \* the result rows
    twin,         \* per row, the advisory answer of a second run with the same outcomes
    calls,        \* what run_cmd was called with, for which rule and list position,
                  \* and how each call ended
    procs,        \* the live processes of the most recent run_cmd call
    \* one advisory invocation
    apc,          \* "start", "check1", "retry", "check2", "parse", "done"; "idle"
    impl,         \* "ai_triage" or "ai_judge"
    sent,         \* the prompts sent to the service, in order
    replies,      \* what the service answered, in order
    body,         \* the text the last request returned
    aresult       \* the value the invocation returned

loadVars == <<lpc, blobs, cmd_blocks, loaded>>

runVars == <<pc, allow_unsafe, ids, keyword, ri, rule, ci, ev, counts, results, twin, calls, procs>>

advVars == <<apc, impl, sent, replies, body, aresult>>

vars == <<loadVars, runVars, advVars>>

None == [none |-> TRUE]

LoadIdle ==
    lpc = "idle" /\ blobs = <<>> /\ cmd_blocks = <<>> /\ loaded = <<>>

RunIdle ==
    /\ pc = "idle" /\ allow_unsafe = FALSE /\ ids = <<>> /\ keyword = ""
    /\ ri = 0 /\ rule = None /\ ci = 0 /\ ev = <<>>
    /\ counts = [executed |-> 0, manual |-> 0, errors |-> 0]
    /\ results = <<>> /\ twin = <<>> /\ calls = <<>> /\ procs = {}

AdvIdle ==
    /\ apc = "idle" /\ impl = "" /\ sent = <<>> /\ replies = <<>>
    /\ body = "" /\ aresult = None

(***************************************************************************)
(* The loader: extract_rules_from_xccdf for one Rule element                *)
(* (lines 135-149; the fallback parser, lines 160-171, does the same).      *)
(* The texts are what itertext gives for each check-content element.        *)
(***************************************************************************)
MaxFrags == 2

MaxBlocks == 2

Fragments ==
    {"$ /usr/bin/profiles -P",
     "FOO=bar",
     "ls -l",
     "$ nettop -l 1",
     "# see the guide",
     "$ /bin/echo a \\\n  b",
     "~~~bash\n/usr/bin/profiles -P\n~~~",
     "~~~\ncat <<EOF\n$ ls\nEOF\n~~~",
     "$ cat <<EOF\n/bin/ls\nEOF",
     "$ sed = /etc/hosts",
     "$ ls \\",
     "~~~\ncat <<EOF > /tmp/x\n$ ls\nEOF\n~~~",
     "$ cat<<EOF\n/bin/ls\nEOF"}

Texts ==
    {Join(fs, "\n") : fs \in UNION {[1..n -> Fragments] : n \in 0..MaxFrags}}

ExtractTable == [t \in Texts |-> ExtractBlock(t)]

\* for check in rule.findall("xccdf:check"): ... cmd_blocks.extend(cmds)
LoadCheck ==
    /\ lpc = "checks"
    /\ Len(blobs) < MaxBlocks
    /\ \E t \in Texts :
        /\ blobs' = Append(blobs, t)
        /\ cmd_blocks' = cmd_blocks \o ExtractTable[t]
    /\ UNCHANGED <<lpc, loaded, runVars, advVars>>

\* if not cmd_blocks: manual = True; rules.append({...})
LoadRule ==
    /\ lpc = "checks"
    /\ loaded' = Append(loaded, [commands |-> cmd_blocks, manual |-> (cmd_blocks = <<>>)])
    /\ lpc' = "done"
    /\ UNCHANGED <<blobs, cmd_blocks, runVars, advVars>>

InitLoad ==
    /\ lpc = "checks" /\ blobs = <<>> /\ cmd_blocks = <<>> /\ loaded = <<>>
    /\ RunIdle /\ AdvIdle

NextLoad == LoadCheck \/ LoadRule

SpecLoad == InitLoad /\ [][NextLoad]_vars

(***************************************************************************)
(* The advisory service and the texts it answers with.  json.loads is the   *)
(* table JsonLoads over these texts: objects are records, arrays sequences, *)
(* each value tagged with its JSON type.                                    *)
(***************************************************************************)
T_FULL == "{\"verdict\":\"Fail Confirmed\",\"rationale\":\"x\",\"tags\":[],\"confidence\":\"low\"}"

T_PASS == "{\"verdict\":\"pass\",\"risk_note\":\"ok\",\"tags\":[\"gatekeeper\"]}"

T_MISSING == "{\"verdict\":\"Fail Confirmed\",\"rationale\":\"x\"}"

T_PROSE == "Here you go: " \o T_FULL

T_GARBAGE == "I cannot help with that"

T_STR == "\"verdict rationale tags confidence\""

T_ARR == "[\"verdict\",\"rationale\",\"tags\",\"confidence\"]"

T_NUM == "5"

T_NULL == "null"

ReplyTexts == {T_FULL, T_PASS, T_MISSING, T_PROSE, T_GARBAGE, T_STR, T_ARR, T_NUM, T_NULL}

\* What the service does with one request: a network or timeout fault, or an
\* HTTP body that is a JSON object, with or without a "response" member.
Replies ==
    {[kind |-> "fault"], [kind |-> "noresponse"]}
    \cup {[kind |-> "response", text |-> t] : t \in ReplyTexts}

JsonError == [t |-> "error"]

JsonLoads(txt) ==
    CASE txt = T_FULL ->
            [t |-> "obj", v |-> [verdict |-> "Fail Confirmed", rationale |-> "x",
                                 tags |-> <<>>, confidence |-> "low"]]
      [] txt = T_PASS ->
            [t |-> "obj", v |-> [verdict |-> "pass", risk_note |-> "ok",
                                 tags |-> <<"gatekeeper">>]]
      [] txt = T_MISSING ->
            [t |-> "obj", v |-> [verdict |-> "Fail Confirmed", rationale |-> "x"]]
      [] txt = T_STR -> [t |-> "str", v |-> "verdict rationale tags confidence"]
      [] txt = T_ARR -> [t |-> "arr", v |-> <<"verdict", "rationale", "tags", "confidence">>]
      [] txt = T_NUM -> [t |-> "num", v |-> 5]
      [] txt = T_NULL -> [t |-> "null"]
      [] OTHER -> JsonError

(***************************************************************************)
(* ai_audit_agent.py: _ollama (lines 49-57) and ai_triage (lines 59-73)     *)
(***************************************************************************)
LLM_ERROR == "__LLM_ERROR__ URLError: connection refused"

\* json.loads(f.read()).get("response","").strip(), or the error text
ollama(reply) ==
    CASE reply.kind = "fault" -> LLM_ERROR
      [] reply.kind = "noresponse" -> ""
      [] OTHER -> Strip(reply.text)

TriageKeys == {"verdict", "rationale", "tags", "confidence"}

\* k in obj, for the Python value json.loads returned; a number or None raises TypeError
KeyIn(k, obj) ==
    CASE obj.t = "obj" -> [ok |-> TRUE, in |-> k \in DOMAIN obj.v]
      [] obj.t = "str" -> [ok |-> TRUE, in |-> Contains(obj.v, k)]
      [] obj.t = "arr" -> [ok |-> TRUE, in |-> \E i \in 1..Len(obj.v) : obj.v[i] = k]
      [] OTHER -> [ok |-> FALSE]

\* try: obj = json.loads(body); if all(k in obj for k in (...)): return obj
\* except Exception: pass            (lines 64-67 and 69-72)
TriageAccepts(txt) ==
    LET obj == JsonLoads(txt) IN
    /\ obj.t # "error"
    /\ \A k \in TriageKeys : KeyIn(k, obj).ok /\ KeyIn(k, obj).in

TRIAGE_FALLBACK ==
    [t |-> "obj", v |-> [verdict |-> "Inconclusive", rationale |-> "Model returned non JSON.",
                         tags |-> <<>>, confidence |-> "low"]]

TriagePrompt1(category, evidence) ==
    "<<SYS>>You are a macOS blue-team auditor.<</SYS>>\nCATEGORY:\n" \o category
    \o "\nEVIDENCE:\n" \o evidence \o "\nRESPONSE:"

TriagePrompt2(category, evidence) ==
    "JSON only with verdict,rationale,tags,confidence\n" \o "CATEGORY:\n" \o category
    \o "\nEVIDENCE:\n" \o evidence \o "\nRESPONSE:"

(***************************************************************************)
(* stig_runner.py: ai_judge (lines 190-221)                                 *)
(***************************************************************************)
JUDGE_FALLBACK ==
    [t |-> "obj", v |-> [verdict |-> "inconclusive", risk_note |-> "AI unavailable or non-JSON",
                         tags |-> <<"ai-fallback">>]]

\* m = re.search(r"\{.*\}", txt, re.DOTALL); if m: txt = m.group(0)
BraceSearch(txt) ==
    LET opens == {i \in 1..Len(txt) : Char(txt, i) = "{"}
        closes == {j \in 1..Len(txt) : Char(txt, j) = "}"}
    IN  IF opens = {} THEN txt
        ELSE LET i == CHOOSE x \in opens : \A y \in opens : x <= y
                 after == {j \in closes : j > i}
             IN  IF after = {} THEN txt
                 ELSE Slice(txt, i, CHOOSE x \in after : \A y \in after : y <= x)

\* resp.stdout of curl -fsS: the HTTP body, empty when the request failed;
\* j = json.loads(resp.stdout); txt = j.get("response","").strip()
JudgeText(reply) ==
    CASE reply.kind = "fault" -> [ok |-> FALSE]
      [] reply.kind = "noresponse" -> [ok |-> TRUE, txt |-> ""]
      [] OTHER -> [ok |-> TRUE, txt |-> Strip(reply.text)]

\* The value ai_judge returns for what the service did with its one request.
ai_judge(reply) ==
    LET j == JudgeText(reply) IN
    IF ~j.ok THEN JUDGE_FALLBACK
    ELSE LET obj == JsonLoads(BraceSearch(j.txt))
         IN  IF obj.t = "error" THEN JUDGE_FALLBACK ELSE obj

(***************************************************************************)
(* run_cmd (lines 175-187)                                                  *)
(* subprocess.run starts /bin/bash -lc cmd with no new session or process   *)
(* group; when the timeout expires it kills and reaps that one child, then  *)
(* raises TimeoutExpired.  A failure to start the interpreter raises        *)
(* OSError.  "bash" is the direct child, "child" a process bash started.    *)
(***************************************************************************)
ProcGroups == {{"bash"}, {"bash", "child"}}

\* What a completed command can return: (returncode, stdout, stderr)
Outputs ==
    {[rc |-> 0, stdout |-> "enabled\n", stderr |-> ""],
     [rc |-> 1, stdout |-> "", stderr |-> "No such file or directory\n"]}

\* The processes left after subprocess.run's timeout handling: process.kill()
KillOnTimeout(group) == group \ {"bash"}

(***************************************************************************)
(* run_rules (lines 288-326)                                                *)
(***************************************************************************)
MaxRules == 2

MaxCmds == 2

RC_BLOCKED == 127

RC_TIMEOUT == 124

\* The rule at position i of the rules list (ids are unique within a source).
RuleMeta(i) ==
    [id |-> "V-" \o ToString(i),
     title |-> IF i % 2 = 1 THEN "Gatekeeper must be enabled" ELSE "Firewall must be on",
     severity |-> IF i % 2 = 1 THEN "high" ELSE "medium"]

CmdPool == {"/usr/bin/profiles -P", "sudo rm -rf /tmp/x", "nettop -l 1"}

CmdLists == UNION {[1..n -> CmdPool] : n \in 0..MaxCmds}

IdsArgs == {<<>>, <<"V-2">>}

KeywordArgs == {"", "Gate"}

\* The replies of the advisory service that run_rules is run against.
JudgeReplies == {[kind |-> "fault"], [kind |-> "response", text |-> T_PASS]}

\* lines 289-297: is rule r among the selected ones
Selected(r) ==
    IF ids # <<>> THEN r.id \in {ids[i] : i \in 1..Len(ids)}
    ELSE IF keyword # "" THEN Contains(Lower(r.title), Lower(keyword))
    ELSE TRUE

\* lines 308-309: the safe-mode test on a command
GateRejectsInverted(c, unsafe) ==
    LET head == FirstToken(Strip(c)) IN
    unsafe /\ ~(StartsWith(head, "/") \/ head \in EXEC_WHITELIST_CMDS)

GateRejects(c, unsafe) ==
    LET head == FirstToken(Strip(c)) IN
    ~unsafe /\ ~(StartsWith(head, "/") \/ head \in EXEC_WHITELIST_CMDS)

\* line 310
BlockedEvidence(c) ==
    [cmd |-> c, rc |-> RC_BLOCKED, stdout |-> "", stderr |-> "blocked by safe mode"]

\* lines 317-318 and 320
TimeoutEvidenceKilled(c) ==
    [cmd |-> c, rc |-> -9, stdout |-> "", stderr |-> ""]

TimeoutEvidence(c) ==
    [cmd |-> c, rc |-> RC_TIMEOUT, stdout |-> "", stderr |-> "timeout"]

\* line 323
LastEvidence(e) ==
    IF e # <<>> THEN e[Len(e)] ELSE [cmd |-> "", rc |-> 0, stdout |-> "", stderr |-> ""]

CurCmd == rule.commands[ci]

SetLastStatus(cs, st) == [cs EXCEPT ![Len(cs)].status = st]

\* for r in selected: a rule the selection leaves out
SkipRule ==
    /\ pc = "rule" /\ ri < MaxRules
    /\ ~Selected(RuleMeta(ri + 1))
    /\ ri' = ri + 1
    /\ UNCHANGED <<pc, allow_unsafe, ids, keyword, rule, ci, ev, counts, results, twin,
                   calls, procs, loadVars, advVars>>

\* for r in selected: the next selected rule (lines 301-305)
StartRule ==
    /\ pc = "rule" /\ ri < MaxRules
    /\ Selected(RuleMeta(ri + 1))
    /\ \E cmds \in CmdLists :
        /\ rule' = [id |-> RuleMeta(ri + 1).id, title |-> RuleMeta(ri + 1).title,
                    severity |-> RuleMeta(ri + 1).severity, commands |-> cmds]
        /\ counts' = IF cmds = <<>> THEN [counts EXCEPT !.manual = @ + 1] ELSE counts
    /\ ri' = ri + 1 /\ ci' = 1 /\ ev' = <<>> /\ pc' = "cmd"
    /\ UNCHANGED <<allow_unsafe, ids, keyword, results, twin, calls, procs, loadVars, advVars>>

\* lines 308-312: the command is blocked
GateBlock ==
    /\ pc = "cmd" /\ ci <= Len(rule.commands)
    /\ GateRejects(CurCmd, allow_unsafe)
    /\ ev' = Append(ev, BlockedEvidence(CurCmd))
    /\ counts' = [counts EXCEPT !.errors = @ + 1]
    /\ ci' = ci + 1
    /\ UNCHANGED <<pc, allow_unsafe, ids, keyword, ri, rule, results, twin, calls, procs,
                   loadVars, advVars>>

\* line 316: run_cmd is called and the interpreter starts
Spawn ==
    /\ pc = "cmd" /\ ci <= Len(rule.commands)
    /\ ~GateRejects(CurCmd, allow_unsafe)
    /\ calls' = Append(calls, [cmd |-> CurCmd, status |-> "running", rule |-> ri, pos |-> ci])
    /\ procs' \in ProcGroups
    /\ pc' = "exec"
    /\ UNCHANGED <<allow_unsafe, ids, keyword, ri, rule, ci, ev, counts, results, twin,
                   loadVars, advVars>>

\* line 316: run_cmd is called and subprocess.run raises OSError; run_rules
\* handles only TimeoutExpired (line 317), so the exception leaves run_rules
SpawnFail ==
    /\ pc = "cmd" /\ ci <= Len(rule.commands)
    /\ ~GateRejects(CurCmd, allow_unsafe)
    /\ calls' = Append(calls, [cmd |-> CurCmd, status |-> "spawn-error", rule |-> ri, pos |-> ci])
    /\ procs' = {}
    /\ pc' = "raised"
    /\ UNCHANGED <<allow_unsafe, ids, keyword, ri, rule, ci, ev, counts, results, twin,
                   loadVars, advVars>>

\* lines 316, 319-320: the command ends within the timeout
Complete ==
    /\ pc = "exec"
    /\ \E o \in Outputs :
        ev' = Append(ev, [cmd |-> CurCmd, rc |-> o.rc, stdout |-> o.stdout, stderr |-> o.stderr])
    /\ calls' = SetLastStatus(calls, "completed")
    /\ procs' = {}
    /\ counts' = [counts EXCEPT !.executed = @ + 1]
    /\ ci' = ci + 1 /\ pc' = "cmd"
    /\ UNCHANGED <<allow_unsafe, ids, keyword, ri, rule, results, twin, loadVars, advVars>>

\* lines 316-320: the timeout expires
Timeout ==
    /\ pc = "exec"
    /\ ev' = Append(ev, TimeoutEvidence(CurCmd))
    /\ calls' = SetLastStatus(calls, "timed-out")
    /\ procs' = KillOnTimeout(procs)
    /\ counts' = [counts EXCEPT !.executed = @ + 1]
    /\ ci' = ci + 1 /\ pc' = "cmd"
    /\ UNCHANGED <<allow_unsafe, ids, keyword, ri, rule, results, twin, loadVars, advVars>>

\* lines 322-325: the advisory answer becomes the row's "ai".  twin records what
\* the same row gets in a second run that differs only in the service's reply.
Judge ==
    /\ pc = "cmd" /\ ci > Len(rule.commands)
    /\ \E reply \in JudgeReplies, reply2 \in JudgeReplies :
        /\ results' = Append(results,
                [id |-> rule.id, title |-> rule.title, severity |-> rule.severity,
                 commands |-> rule.commands, evidence |-> ev, ai |-> ai_judge(reply)])
        /\ twin' = Append(twin, ai_judge(reply2))
    /\ pc' = "rule"
    /\ UNCHANGED <<allow_unsafe, ids, keyword, ri, rule, ci, ev, counts, calls, procs,
                   loadVars, advVars>>

\* line 326: the rules list is exhausted
Return ==
    /\ pc = "rule"
    /\ pc' = "done"
    /\ UNCHANGED <<allow_unsafe, ids, keyword, ri, rule, ci, ev, counts, results, twin,
                   calls, procs, loadVars, advVars>>

Init ==
    /\ pc = "rule"
    /\ allow_unsafe \in BOOLEAN /\ ids \in IdsArgs /\ keyword \in KeywordArgs
    /\ ri = 0 /\ rule = None /\ ci = 0 /\ ev = <<>>
    /\ counts = [executed |-> 0, manual |-> 0, errors |-> 0]
    /\ results = <<>> /\ twin = <<>> /\ calls = <<>> /\ procs = {}
    /\ LoadIdle /\ AdvIdle

Next ==
    \/ SkipRule \/ StartRule \/ GateBlock \/ Spawn \/ SpawnFail
    \/ Complete \/ Timeout \/ Judge \/ Return

Spec == Init /\ [][Next]_vars

\* render_report_html, lines 228-232: the tallies of the report
Tally(rows_ai, verdict) ==
    Cardinality({i \in 1..Len(rows_ai) : rows_ai[i].v.verdict = verdict})

(***************************************************************************)
(* One advisory invocation: ai_triage(category, evidence) of                *)
(* ai_audit_agent.py, or ai_judge(rule, rc, out, err) of stig_runner.py      *)
(***************************************************************************)
Categories == {"AUTH", "PERSIST"}

NoHits == "No hits in window."

JudgePrompt ==
    "You are a macOS compliance assistant. Analyze this STIG rule result and return strict JSON."
    \o "\nExitCode: 0\nReturn JSON only."

\* ai_triage line 63: the first request
TriageAsk1 ==
    /\ apc = "start" /\ impl = "ai_triage"
    /\ \E cat \in Categories, r \in Replies :
        /\ sent' = <<TriagePrompt1(cat, NoHits)>>
        /\ replies' = <<r>>
        /\ body' = ollama(r)
    /\ apc' = "check1"
    /\ UNCHANGED <<impl, aresult, loadVars, runVars>>

\* ai_triage lines 64-67
TriageCheck1 ==
    /\ apc = "check1"
    /\ IF TriageAccepts(body)
       THEN aresult' = JsonLoads(body) /\ apc' = "done"
       ELSE aresult' = aresult /\ apc' = "retry"
    /\ UNCHANGED <<impl, sent, replies, body, loadVars, runVars>>

\* ai_triage line 68: the second request, for the same category and evidence
TriageAsk2 ==
    /\ apc = "retry"
    /\ \E cat \in Categories, r \in Replies :
        /\ sent[1] = TriagePrompt1(cat, NoHits)
        /\ sent' = Append(sent, TriagePrompt2(cat, NoHits))
        /\ replies' = Append(replies, r)
        /\ body' = ollama(r)
    /\ apc' = "check2"
    /\ UNCHANGED <<impl, aresult, loadVars, runVars>>

\* ai_triage lines 69-73
TriageCheck2 ==
    /\ apc = "check2"
    /\ aresult' = IF TriageAccepts(body) THEN JsonLoads(body) ELSE TRIAGE_FALLBACK
    /\ apc' = "done"
    /\ UNCHANGED <<impl, sent, replies, body, loadVars, runVars>>

\* ai_judge lines 209-213: the one request
JudgeAsk ==
    /\ apc = "start" /\ impl = "ai_judge"
    /\ \E r \in Replies :
        /\ sent' = <<JudgePrompt>>
        /\ replies' = <<r>>
        /\ body' = IF JudgeText(r).ok THEN JudgeText(r).txt ELSE ""
    /\ apc' = "parse"
    /\ UNCHANGED <<impl, aresult, loadVars, runVars>>

\* ai_judge lines 214-221
JudgeParse ==
    /\ apc = "parse"
    /\ aresult' = ai_judge(replies[1])
    /\ apc' = "done"
    /\ UNCHANGED <<impl, sent, replies, body, loadVars, runVars>>

InitAdvisory ==
    /\ apc = "start" /\ impl \in {"ai_triage", "ai_judge"}
    /\ sent = <<>> /\ replies = <<>> /\ body = "" /\ aresult = None
    /\ LoadIdle /\ RunIdle

NextAdvisory ==
    \/ TriageAsk1 \/ TriageCheck1 \/ TriageAsk2 \/ TriageCheck2
    \/ JudgeAsk \/ JudgeParse

SpecAdvisory == InitAdvisory /\ [][NextAdvisory]_vars

(***************************************************************************)
(* Claims                                                                   *)
(***************************************************************************)
\* The leading whitespace-delimited token of c is neither under the trusted
\* prefix nor a name of the allow-list.
Unvetted(c) ==
    LET head == FirstToken(Strip(c)) IN
    ~StartsWith(head, "/") /\ head \notin EXEC_WHITELIST_CMDS

\* The evidence entries of the finished rows followed by those of the rule in progress.
RECURSIVE RowsEvidence(_)
RowsEvidence(rows) ==
    IF rows = <<>> THEN <<>> ELSE Head(rows).evidence \o RowsEvidence(Tail(rows))

AllEvidence == RowsEvidence(results) \o (IF pc \in {"cmd", "exec", "raised"} THEN ev ELSE <<>>)

\* C1: in Safe mode run_cmd is never called with a command whose leading token is
\* outside the trusted prefix and the allow-list, whatever ran before it.
C1_SafeNeverRunsUnvetted ==
    ~allow_unsafe => \A k \in 1..Len(calls) : ~Unvetted(calls[k].cmd)

\* C1 witness: a Safe-mode rule whose first command ran and timed out and whose
\* second command was unvetted and got its blocked entry instead of a call.
C1_Witness ==
    /\ ~allow_unsafe /\ pc = "cmd" /\ Len(ev) = 2
    /\ ~Unvetted(ev[1].cmd) /\ ev[1].rc = RC_TIMEOUT
    /\ Unvetted(ev[2].cmd) /\ ev[2].rc = RC_BLOCKED
    /\ Len(calls) = 1

\* The deny-pattern set of the Safety Gate as the specification describes it:
\* recursive forced deletion, disabling protective services, removing persistent
\* daemons, bulk policy writes.  stig_runner.py has no such set.
DenyPattern(c) ==
    \/ Contains(c, "rm -rf")
    \/ Contains(c, "csrutil disable") \/ Contains(c, "spctl --master-disable")
    \/ Contains(c, "launchctl remove")
    \/ Contains(c, "defaults write")

\* C2: a command matching the deny-pattern set never reaches run_cmd, in Safe mode
\* or with allow_unsafe set (run_rules takes no further override).
C2_DenyNeverRuns ==
    \A k \in 1..Len(calls) : ~DenyPattern(calls[k].cmd)

\* C3: a step of run_rules on a command the gate rejects appends exactly one entry
\* with the blocked code, empty stdout and a stderr tagged "blocked by policy",
\* adds one to errors, leaves executed alone, calls nothing and goes to the next
\* command.
C3_BlockedByPolicy ==
    [][(pc = "cmd" /\ ci <= Len(rule.commands) /\ ~allow_unsafe /\ Unvetted(rule.commands[ci]))
        => /\ Len(ev') = Len(ev) + 1 /\ SubSeq(ev', 1, Len(ev)) = ev
           /\ ev'[Len(ev')].cmd = rule.commands[ci]
           /\ ev'[Len(ev')].rc = RC_BLOCKED /\ ev'[Len(ev')].stdout = ""
           /\ Contains(ev'[Len(ev')].stderr, "blocked by policy")
           /\ counts'.errors = counts.errors + 1 /\ counts'.executed = counts.executed
           /\ calls' = calls /\ ci' = ci + 1 /\ pc' = "cmd"]_vars

\* The same step with the tag the code writes, "blocked by safe mode".
C3_BlockedAsCoded ==
    [][(pc = "cmd" /\ ci <= Len(rule.commands) /\ ~allow_unsafe /\ Unvetted(rule.commands[ci]))
        => /\ Len(ev') = Len(ev) + 1 /\ SubSeq(ev', 1, Len(ev)) = ev
           /\ ev'[Len(ev')].cmd = rule.commands[ci]
           /\ ev'[Len(ev')].rc = RC_BLOCKED /\ ev'[Len(ev')].stdout = ""
           /\ Contains(ev'[Len(ev')].stderr, "blocked by safe mode")
           /\ counts'.errors = counts.errors + 1 /\ counts'.executed = counts.executed
           /\ calls' = calls /\ ci' = ci + 1 /\ pc' = "cmd"]_vars

\* C4: a row of a rule without commands has no evidence, the rule was counted as
\* manual without any run_cmd call, and the verdict recorded in the row is Manual.
C4_NoCommandsIsManual ==
    \A i \in 1..Len(results) :
        results[i].commands = <<>> =>
            /\ results[i].evidence = <<>>
            /\ counts.manual >= 1
            /\ Lower(results[i].ai.v.verdict) = "manual"

\* C5: when a run_cmd call that ended by timeout has returned, no process of the
\* command's group is running.
C5_NoProcessAfterTimeout ==
    (pc # "exec" /\ calls # <<>> /\ calls[Len(calls)].status = "timed-out") => procs = {}

\* C6: the step in which a run_cmd call ends by timeout appends exactly one evidence
\* entry for the command, with exit code 124, empty stdout and a stderr noting the
\* timeout; run_rules does not raise and is at the rule's next command.
C6_TimeoutRecorded ==
    [][(pc = "exec" /\ calls'[Len(calls')].status = "timed-out")
        => /\ ev' = Append(ev, [cmd |-> rule.commands[ci], rc |-> 124, stdout |-> "",
                               stderr |-> ev'[Len(ev')].stderr])
           /\ Contains(Lower(ev'[Len(ev')].stderr), "timeout")
           /\ pc' = "cmd" /\ ci' = ci + 1
           /\ rule' = rule /\ results' = results /\ ri' = ri]_vars

\* C6 witness: the first command of the first rule timed out, the rule's second
\* command then ran to completion, and a later rule has its row as well.
C6_Witness ==
    /\ Len(results) = 2
    /\ Len(results[1].evidence) = 2
    /\ results[1].evidence[1].rc = 124 /\ results[1].evidence[1].stderr = "timeout"
    /\ results[1].evidence[2].rc = 0
    /\ results[2].evidence # <<>>
    /\ pc = "done"

\* C7: a run_cmd call that failed to start the interpreter leaves an evidence entry
\* for its command with a non-zero reserved code and the failure text, and no
\* exception leaves run_rules.
C7_SpawnFailureContained ==
    \A k \in 1..Len(calls) :
        calls[k].status = "spawn-error" =>
            /\ pc # "raised"
            /\ \E i \in 1..Len(AllEvidence) :
                /\ AllEvidence[i].cmd = calls[k].cmd
                /\ AllEvidence[i].rc \notin {0, RC_TIMEOUT, RC_BLOCKED}
                /\ AllEvidence[i].stderr # ""

\* The first answers the claim C8 speaks of: a JSON object with the four fields,
\* or a non-JSON text, an object lacking a field, or a fault.
FourFields(reply) ==
    /\ reply.kind = "response"
    /\ JsonLoads(Strip(reply.text)).t = "obj"
    /\ TriageKeys \subseteq DOMAIN JsonLoads(Strip(reply.text)).v

Unusable(reply) ==
    \/ reply.kind \in {"fault", "noresponse"}
    \/ JsonLoads(Strip(reply.text)).t = "error"
    \/ /\ JsonLoads(Strip(reply.text)).t = "obj"
       /\ ~(TriageKeys \subseteq DOMAIN JsonLoads(Strip(reply.text)).v)

Returned(reply) ==
    aresult.t = "obj" /\ aresult.v = JsonLoads(Strip(reply.text)).v

\* What C8 says of one finished invocation.
OneRetryContract ==
    /\ Len(sent) <= 2
    /\ FourFields(replies[1]) => (Len(sent) = 1 /\ Returned(replies[1]))
    /\ Unusable(replies[1]) =>
        /\ Len(sent) = 2 /\ StartsWith(sent[2], "JSON only")
        /\ FourFields(replies[2]) => Returned(replies[2])
        /\ Unusable(replies[2]) =>
            (aresult.t = "obj" /\ Lower(aresult.v.verdict) = "inconclusive")

\* C8: every finished invocation of ai_triage and of ai_judge keeps the contract:
\* a good first answer is returned with no retry, a bad one causes exactly one
\* retry with the JSON-only prompt, two bad ones give the fixed Inconclusive
\* opinion, and the service is contacted at most twice.
C8_OneRetryEverywhere ==
    apc = "done" => OneRetryContract

\* The same for ai_triage alone.
C8_OneRetryInTriage ==
    (apc = "done" /\ impl = "ai_triage") => OneRetryContract

\* C9: each row's verdict and the tallies of the run are the same in two runs that
\* differ only in what the advisory service answered.
C9_AdvisoryAdditive ==
    /\ \A i \in 1..Len(results) : results[i].ai.v.verdict = twin[i].v.verdict
    /\ \A v \in {"pass", "fail", "needs_review", "inconclusive"} :
        Tally([i \in 1..Len(results) |-> results[i].ai], v) = Tally(twin, v)

\* cmds without the later repeats of a command
RECURSIVE DedupFirst(_)
DedupFirst(cmds) ==
    IF cmds = <<>> THEN <<>>
    ELSE LET init == DedupFirst(SubSeq(cmds, 1, Len(cmds) - 1))
             last == cmds[Len(cmds)]
         IN  IF \E i \in 1..Len(init) : init[i] = last THEN init ELSE Append(init, last)

RECURSIVE Discovered(_)
Discovered(texts) ==
    IF texts = <<>> THEN <<>> ELSE ExtractBlock(Head(texts)) \o Discovered(Tail(texts))

\* C10: the command list of a loaded rule holds no command twice and is the list
\* of the commands found in its check-content blocks, in the order of their first
\* appearance.
C10_DedupInOrder ==
    \A i \in 1..Len(loaded) :
        /\ \A j, k \in 1..Len(loaded[i].commands) :
            j # k => loaded[i].commands[j] # loaded[i].commands[k]
        /\ loaded[i].commands = DedupFirst(Discovered(blobs))

\* C11: within the pass over one rule run_cmd is called at most once per distinct
\* command string; in particular a command that timed out or failed is not run again.
C11_OncePerCommand ==
    \A j, k \in 1..Len(calls) :
        (j < k /\ calls[j].rule = calls[k].rule) => calls[j].cmd # calls[k].cmd

\* What run_rules does keep: one call at most for each position of the rule's list,
\* whatever the earlier call's outcome.
C11_OncePerListEntry ==
    \A j, k \in 1..Len(calls) :
        (j < k /\ calls[j].rule = calls[k].rule) => calls[j].pos < calls[k].pos

\* A guidance text that is one prompt line, and what follows its sigil.
OnePromptLine(t) == StartsWith(t, "$") /\ ~Contains(t, "\n") /\ ~Contains(t, "\r")

PromptRemainder(t) == Strip(Slice(t, 2, Len(t)))

\* c has the shape identifier = value.
AssignmentShape(c) ==
    \E n \in 1..Len(c) : \E m \in (n + 1)..Len(c) :
        /\ Char(c, 1) \in IdentStart
        /\ \A i \in 2..n : Char(c, i) \in IdentChars
        /\ \A i \in (n + 1)..(m - 1) : IsSpace(Char(c, i))
        /\ Char(c, m) = "="

\* No command of a loaded rule is empty, a comment or an assignment.
AcceptedShapeOnly ==
    \A i \in 1..Len(loaded) : \A k \in 1..Len(loaded[i].commands) :
        /\ loaded[i].commands[k] # ""
        /\ ~StartsWith(loaded[i].commands[k], "#")
        /\ ~AssignmentShape(loaded[i].commands[k])

\* The rule was loaded from one check-content block, the text t.
LoadedFrom(t) == lpc = "done" /\ blobs = <<t>>

\* C12 as stated: a rule whose guidance is one prompt line "$ X", X starting with
\* an absolute path or an allow-listed name, has the command list <<X>>; and no
\* command of any loaded rule is empty, a comment or of the shape identifier = value.
C12_PromptLineAndShape ==
    /\ \A t \in Texts :
        (LoadedFrom(t) /\ OnePromptLine(t) /\ PromptRemainder(t) # ""
            /\ ~Unvetted(PromptRemainder(t)))
        => loaded[1].commands = <<PromptRemainder(t)>>
    /\ AcceptedShapeOnly

\* C12, amended: the same for the prompt lines whose remainder X is not itself of
\* the shape identifier = value and does not end in a continuation marker.
C12_PromptLineAccepted ==
    /\ \A t \in Texts :
        (LoadedFrom(t) /\ OnePromptLine(t) /\ PromptRemainder(t) # ""
            /\ ~Unvetted(PromptRemainder(t))
            /\ ~AssignmentShape(PromptRemainder(t))
            /\ ~EndsWith(PromptRemainder(t), "\\"))
        => loaded[1].commands = <<PromptRemainder(t)>>
    /\ AcceptedShapeOnly

\* C12 witness: the rule loaded from "$ /usr/bin/profiles -P".
C12_Witness ==
    /\ LoadedFrom("$ /usr/bin/profiles -P")
    /\ loaded[1].commands = <<"/usr/bin/profiles -P">>

\* A fenced block with the given tag and body, and a heredoc invocation.
FencedBlock(tag, text) == FENCE3 \o tag \o "\n" \o text \o "\n" \o FENCE3

HeredocText(head, payload, tag) == head \o "\n" \o payload \o "\n" \o tag

HeredocHeads == {"cat <<EOF", "cat <<EOF > /tmp/x"}

\* C13: a rule whose guidance is a fenced block holding a heredoc invocation (head
\* line with <<EOF, a body line that starts with a prompt sigil, the line EOF) has
\* exactly one command, which holds the head line and the body.
C13_FencedHeredocOneCommand ==
    \A head \in HeredocHeads :
        LoadedFrom(FencedBlock("", HeredocText(head, "$ ls", "EOF"))) =>
            /\ Len(loaded[1].commands) = 1
            /\ StartsWith(loaded[1].commands[1], head \o "\n$ ls")

\* The same for the heads whose <<EOF ends the line, which is what
\* _RE_HEREDOC_OPEN recognizes.
C13_TagEndsHeadLine ==
    \A head \in {h \in HeredocHeads : EndsWith(h, "<<EOF")} :
        LoadedFrom(FencedBlock("", HeredocText(head, "$ ls", "EOF"))) =>
            /\ Len(loaded[1].commands) = 1
            /\ StartsWith(loaded[1].commands[1], head \o "\n$ ls")

BareLines == {"ls -l", "/usr/bin/profiles -P"}

\* C14: a rule whose guidance is one line without a sigil that starts with an
\* absolute path or an allow-listed name has that line as its command list, when
\* the line is the body of a fenced block and when it is the whole unfenced text.
C14_BareLineExtracted ==
    \A l \in BareLines :
        (LoadedFrom(l) \/ \E tag \in {"", "bash"} : LoadedFrom(FencedBlock(tag, l)))
        => loaded[1].commands = <<l>>

\* The fenced half of C14.
C14_BareLineInFence ==
    \A l \in BareLines :
        (\E tag \in {"", "bash"} : LoadedFrom(FencedBlock(tag, l)))
        => loaded[1].commands = <<l>>

Fenced(t) == StartsWith(t, FENCE3)

\* C15: a rule whose guidance is a fenced block that yields commands together with,
\* outside the fence, a prompt line or heredoc invocation that yields commands on
\* its own, has the commands of both parts, in the order of the text.
C15_RecognizersIndependent ==
    \A a, b \in Fragments :
        (/\ LoadedFrom(a \o "\n" \o b)
         /\ Fenced(a) # Fenced(b)
         /\ ~EndsWith(a, "\\") /\ ~EndsWith(b, "\\")
         /\ ExtractTable[a] # <<>> /\ ExtractTable[b] # <<>>)
        => loaded[1].commands = ExtractTable[a] \o ExtractTable[b]

\* The Result Classifier of the specification: the verdicts it allows for one
\* execution outcome.  stig_runner.py has no such function.
Affirmative(text) ==
    Contains(Lower(text), "pass") \/ Contains(Lower(text), "enabled") \/ Contains(Lower(text), "ok")

ClassifierVerdicts(e) ==
    IF e.rc = 0 THEN (IF Affirmative(e.stdout \o e.stderr) THEN {"pass"} ELSE {"fail"})
    ELSE IF e.rc = RC_TIMEOUT THEN {"skipped", "error"}
    ELSE {"error"}

\* C16: the verdict recorded in the row of a rule with one evidence entry is the
\* one the classifier mapping gives for that entry's exit code and output: Pass or
\* Fail for exit 0, Skipped or Error for the timeout code, Error otherwise.
C16_VerdictFromOutcome ==
    \A i \in 1..Len(results) :
        Len(results[i].evidence) = 1 =>
            Lower(results[i].ai.v.verdict) \in ClassifierVerdicts(results[i].evidence[1])

\* C17 as stated: every command of a loaded rule passes the Safe-mode test of
\* run_rules, so that run_rules never blocks a command of a loaded rule.
C17_ExtractedPassGate ==
    \A i \in 1..Len(loaded) : \A k \in 1..Len(loaded[i].commands) :
        ~GateRejects(loaded[i].commands[k], FALSE)

\* C17, amended: every command of a loaded rule passes the Safe-mode test unless
\* its leading token holds the heredoc marker (a heredoc block is accepted on its
\* head, the text before the marker, and the gate reads the whole first token).
C17_ExtractedPassGateUnlessGlued ==
    \A i \in 1..Len(loaded) : \A k \in 1..Len(loaded[i].commands) :
        ~Contains(FirstToken(Strip(loaded[i].commands[k])), "<<")
            => ~GateRejects(loaded[i].commands[k], FALSE)

\* C17 witness: a rule loaded from a prompt line and a fenced heredoc, whose two
\* commands both pass the Safe-mode test.
C17_Witness ==
    /\ lpc = "done"
    /\ blobs = <<"$ /usr/bin/profiles -P", "~~~\ncat <<EOF\n$ ls\nEOF\n~~~">>
    /\ loaded[1].commands = <<"/usr/bin/profiles -P", "cat <<EOF\n$ ls\nEOF">>
    /\ \A k \in 1..2 : ~GateRejects(loaded[1].commands[k], FALSE)

\* C18: whatever the service answered to the first request and to the retry, a
\* finished ai_triage has returned a JSON object with the four fields.
C18_TriageReturnsObject ==
    (apc = "done" /\ impl = "ai_triage") =>
        (aresult.t = "obj" /\ TriageKeys \subseteq DOMAIN aresult.v)

\* What holds instead: the value returned is the fixed opinion or the parsed
\* answer of the last request, which passed the "k in obj" test but need not be
\* an object.
C18_TriageReturnsAccepted ==
    (apc = "done" /\ impl = "ai_triage") =>
        \/ aresult = TRIAGE_FALLBACK
        \/ TriageAccepts(body) /\ aresult = JsonLoads(body)

====
